---- MODULE Spec2Model ----
(***************************************************************************)
(* Model of src/04-date-tasks.js: isLeapYear, timeSpanToString and         *)
(* angleBetweenClockHands.  The functions are pure; the state machine is a *)
(* caller that makes one call, on inputs drawn from bounded sets, and      *)
(* records the arguments, the function's local values and the value it     *)
(* returns; after the call nothing changes any more.                       *)
(*                                                                         *)
(* Date values are epoch milliseconds (TLC integers are 32 bit, so the     *)
(* sample instants lie in the first days after 1970-01-01T00:00Z).         *)
(* Strings are sequences of one-character strings.                         *)
(* Angles in degrees are kept in sixths of a degree, so that 0.5 * x and   *)
(* ugol / 3 stay integers; the value returned in radians is kept as the    *)
(* reduced fraction num/den of pi.                                         *)
(***************************************************************************)
EXTENDS Integers, Sequences, FiniteSets, TLC

VARIABLES fn, args, locals, ret

vars == <<fn, args, locals, ret>>

----------------------------------------------------------------------------
(* Bounds of the sampled inputs *)

MaxYear == 2100

MaxHour == 100

MaxClockMinute == 1439

MaxTzHours == 3

----------------------------------------------------------------------------
(* JavaScript arithmetic on integers *)

\* a % b of JavaScript for b > 0: the remainder has the sign of the dividend
JsRem(a, b) == IF a >= 0 THEN a % b ELSE 0 - ((0 - a) % b)

\* Math.floor(a / b): rounds toward minus infinity
FloorDiv(a, b) == a \div b

\* Math.trunc(a / b) for b > 0: rounds toward zero
MathTrunc(a, b) == IF a >= 0 THEN a \div b ELSE 0 - ((0 - a) \div b)

\* Math.abs
MathAbs(a) == IF a < 0 THEN 0 - a ELSE a

----------------------------------------------------------------------------
(* isLeapYear; the argument is date.getFullYear() *)

isLeapYear(fullYear) ==
    IF JsRem(fullYear, 4) > 0 THEN FALSE
    ELSE IF JsRem(fullYear, 100) = 0
         THEN (IF JsRem(fullYear, 400) = 0 THEN TRUE ELSE FALSE)
         ELSE TRUE

----------------------------------------------------------------------------
(* Number.prototype.toString and String.prototype.padStart *)

DigitChar(d) ==
    CASE d = 0 -> "0" [] d = 1 -> "1" [] d = 2 -> "2" [] d = 3 -> "3"
      [] d = 4 -> "4" [] d = 5 -> "5" [] d = 6 -> "6" [] d = 7 -> "7"
      [] d = 8 -> "8" [] d = 9 -> "9"

RECURSIVE NatToString(_)
NatToString(n) ==
    IF n < 10 THEN <<DigitChar(n)>>
    ELSE NatToString(n \div 10) \o <<DigitChar(n % 10)>>

\* n.toString() for an integer n
toString(n) == IF n < 0 THEN <<"-">> \o NatToString(0 - n) ELSE NatToString(n)

\* the idiom ('00' + s).slice(-targetLength): pads, but also cuts long fields
padSlice(s, targetLength) ==
    LET padded == [i \in 1..targetLength |-> "0"] \o s
    IN  SubSeq(padded, Len(padded) - targetLength + 1, Len(padded))

\* s.padStart(targetLength, 0): the pad string is "0"
padStart(s, targetLength) ==
    IF Len(s) >= targetLength THEN s
    ELSE [i \in 1..(targetLength - Len(s)) |-> "0"] \o s

----------------------------------------------------------------------------
(* timeSpanToString *)

millisecondQuantity(startDate, endDate) == endDate - startDate

hour(q) == MathTrunc(q, 3600000)

\* minutes computed without reducing modulo one hour first
minutesNoRem(q) == MathTrunc(q, 60000)

minutes(q) == MathTrunc(JsRem(q, 3600000), 60000)

seconds(q) == MathTrunc(JsRem(JsRem(q, 3600000), 60000), 1000)

millisecond(q) ==
    q - (3600000 * hour(q)) - (minutes(q) * 60000) - (seconds(q) * 1000)

timeSpanToString(startDate, endDate) ==
    LET q == millisecondQuantity(startDate, endDate)
    IN  padStart(toString(hour(q)), 2) \o <<":">>
          \o padStart(toString(minutes(q)), 2) \o <<":">>
          \o padStart(toString(seconds(q)), 2) \o <<".">>
          \o padStart(toString(millisecond(q)), 3)

----------------------------------------------------------------------------
(* angleBetweenClockHands; tz is the host's offset from UTC in minutes *)

\* Date.prototype.getHours: the hour of the instant on the host's local clock
getHours(date, tz) == ((date + tz * 60000) \div 3600000) % 24

\* Date.prototype.getMinutes: the minute on the host's local clock
getMinutes(date, tz) == ((date + tz * 60000) \div 60000) % 60

\* the hour left as the accessor returns it
shiftHoursNone(h) == h

\* if (hours - 3 < 0) hours = hours - 3 + 24; else hours -= 3;
shiftHours(h) == IF h - 3 < 0 THEN h - 3 + 24 ELSE h - 3

\* the table with its last case missing, so that 23 falls to the default
switchHoursShort(h) ==
    CASE h = 13 -> [hours |-> 1, branch |-> "case"]
      [] h = 14 -> [hours |-> 2, branch |-> "case"]
      [] h = 15 -> [hours |-> 3, branch |-> "case"]
      [] h = 16 -> [hours |-> 4, branch |-> "case"]
      [] h = 17 -> [hours |-> 5, branch |-> "case"]
      [] h = 18 -> [hours |-> 6, branch |-> "case"]
      [] h = 19 -> [hours |-> 7, branch |-> "case"]
      [] h = 20 -> [hours |-> 8, branch |-> "case"]
      [] h = 21 -> [hours |-> 9, branch |-> "case"]
      [] h = 22 -> [hours |-> 10, branch |-> "case"]
      [] OTHER -> [hours |-> 0, branch |-> "default"]

\* switch (hours) { case 13: ... case 23: ... default: hours = 0 }
switchHours(h) ==
    CASE h = 13 -> [hours |-> 1, branch |-> "case"]
      [] h = 14 -> [hours |-> 2, branch |-> "case"]
      [] h = 15 -> [hours |-> 3, branch |-> "case"]
      [] h = 16 -> [hours |-> 4, branch |-> "case"]
      [] h = 17 -> [hours |-> 5, branch |-> "case"]
      [] h = 18 -> [hours |-> 6, branch |-> "case"]
      [] h = 19 -> [hours |-> 7, branch |-> "case"]
      [] h = 20 -> [hours |-> 8, branch |-> "case"]
      [] h = 21 -> [hours |-> 9, branch |-> "case"]
      [] h = 22 -> [hours |-> 10, branch |-> "case"]
      [] h = 23 -> [hours |-> 11, branch |-> "case"]
      [] OTHER -> [hours |-> 0, branch |-> "default"]

\* if (hours > 12) { switch ... }
hours(h) == IF h > 12 THEN switchHours(h) ELSE [hours |-> h, branch |-> "none"]

\* Math.abs(0.5 * (60 * hours + minutes) - 6 * minutes), in sixths of a degree
ugolRaw(h, m) == MathAbs(3 * (60 * h + m) - 36 * m)

\* the raw angle returned without the correction above 180 degrees
ugolKept(u) == u

\* if (ugol > 180) ugol /= 3, in sixths of a degree (u is a multiple of 3)
ugol(u) == IF u > 1080 THEN u \div 3 ELSE u

RECURSIVE Gcd(_, _)
Gcd(a, b) == IF b = 0 THEN a ELSE Gcd(b, a % b)

\* (Math.PI * ugol) / 180 as the reduced fraction num/den of pi
radians(u) ==
    LET g == Gcd(u, 1080)
    IN  [num |-> u \div g, den |-> 1080 \div g]

clockLocals(date, tz) ==
    LET local == getHours(date, tz)
        shifted == shiftHours(local)
        h == hours(shifted)
        m == getMinutes(date, tz)
        raw == ugolRaw(h.hours, m)
    IN  [getHours |-> local, shifted |-> shifted, hours |-> h.hours,
         branch |-> h.branch, minutes |-> m, raw |-> raw, ugol |-> ugol(raw)]

angleBetweenClockHands(date, tz) == radians(clockLocals(date, tz).ugol)

----------------------------------------------------------------------------
(* Sampled inputs *)

Years == (0 - MaxYear)..MaxYear

\* instants h:m:s.ms after the epoch, as Date(1970,0,1,h,m,s,ms) builds them
DateValues ==
    { h * 3600000 + m * 60000 + s * 1000 + ms :
        h \in {0, 1, 10, MaxHour}, m \in {0, 1, 59},
        s \in {0, 1, 59}, ms \in {0, 1, 10, 999} }

\* the whole minutes of 1970-01-01 UTC, as Date.UTC(1970,0,1,h,m) builds them
ClockDates == { 60000 * k : k \in 0..MaxClockMinute }

\* host offsets from UTC in minutes: whole hours, and UTC+05:30
TzOffsets == { 60 * k : k \in (0 - MaxTzHours)..MaxTzHours } \cup {330}

----------------------------------------------------------------------------
(* The caller *)

Init ==
    /\ fn = "none"
    /\ args = <<>>
    /\ locals = <<>>
    /\ ret = <<>>

CallIsLeapYear ==
    /\ fn = "none"
    /\ \E fullYear \in Years :
        /\ fn' = "isLeapYear"
        /\ args' = [fullYear |-> fullYear]
        /\ locals' = <<>>
        /\ ret' = isLeapYear(fullYear)

CallTimeSpanToString ==
    /\ fn = "none"
    /\ \E startDate \in DateValues, endDate \in DateValues :
        LET q == millisecondQuantity(startDate, endDate)
        IN  /\ fn' = "timeSpanToString"
            /\ args' = [startDate |-> startDate, endDate |-> endDate]
            /\ locals' = [millisecondQuantity |-> q,
                          hour |-> hour(q),
                          minutes |-> minutes(q),
                          seconds |-> seconds(q),
                          millisecond |-> millisecond(q)]
            /\ ret' = timeSpanToString(startDate, endDate)

CallAngleBetweenClockHands ==
    /\ fn = "none"
    /\ \E date \in ClockDates, tz \in TzOffsets :
        /\ fn' = "angleBetweenClockHands"
        /\ args' = [date |-> date, tz |-> tz]
        /\ locals' = clockLocals(date, tz)
        /\ ret' = angleBetweenClockHands(date, tz)

\* the same instant given to the function on two hosts in different zones
CallAngleOnTwoHosts ==
    /\ fn = "none"
    /\ \E date \in ClockDates, tz \in TzOffsets, tz2 \in TzOffsets :
        /\ tz < tz2
        /\ fn' = "angleBetweenClockHands on two hosts"
        /\ args' = [date |-> date, tz |-> tz, tz2 |-> tz2]
        /\ locals' = <<>>
        /\ ret' = <<angleBetweenClockHands(date, tz),
                    angleBetweenClockHands(date, tz2)>>

Next ==
    \/ CallIsLeapYear
    \/ CallTimeSpanToString
    \/ CallAngleBetweenClockHands
    \/ CallAngleOnTwoHosts

Spec == Init /\ [][Next]_vars

----------------------------------------------------------------------------
(* Reading a returned time span back: the fields between ':' ':' '.' *)

IsDigit(c) == c \in {"0", "1", "2", "3", "4", "5", "6", "7", "8", "9"}

DigitValue(c) ==
    CASE c = "0" -> 0 [] c = "1" -> 1 [] c = "2" -> 2 [] c = "3" -> 3
      [] c = "4" -> 4 [] c = "5" -> 5 [] c = "6" -> 6 [] c = "7" -> 7
      [] c = "8" -> 8 [] c = "9" -> 9

RECURSIVE ParseNat(_)
ParseNat(s) ==
    IF Len(s) = 0 THEN 0
    ELSE 10 * ParseNat(SubSeq(s, 1, Len(s) - 1)) + DigitValue(s[Len(s)])

\* the index of the k-th separator of s
RECURSIVE SeparatorAt(_, _, _)
SeparatorAt(s, k, from) ==
    IF from > Len(s) THEN 0
    ELSE IF s[from] \in {":", "."}
         THEN (IF k = 1 THEN from ELSE SeparatorAt(s, k - 1, from + 1))
         ELSE SeparatorAt(s, k, from + 1)

Fields(s) ==
    LET p1 == SeparatorAt(s, 1, 1)
        p2 == SeparatorAt(s, 2, 1)
        p3 == SeparatorAt(s, 3, 1)
    IN  [H |-> SubSeq(s, 1, p1 - 1), M |-> SubSeq(s, p1 + 1, p2 - 1),
         S |-> SubSeq(s, p2 + 1, p3 - 1), ms |-> SubSeq(s, p3 + 1, Len(s))]

\* s has the shape digits ':' digits ':' digits '.' digits
WellFormed(s) ==
    /\ SeparatorAt(s, 3, 1) > 0
    /\ SeparatorAt(s, 4, 1) = 0
    /\ s[SeparatorAt(s, 1, 1)] = ":"
    /\ s[SeparatorAt(s, 2, 1)] = ":"
    /\ s[SeparatorAt(s, 3, 1)] = "."
    /\ \A f \in {Fields(s).H, Fields(s).M, Fields(s).S, Fields(s).ms} :
          Len(f) > 0 /\ \A i \in 1..Len(f) : IsDigit(f[i])

\* d divides n, for d > 0
Divides(d, n) == MathAbs(n) % d = 0

----------------------------------------------------------------------------
(* Claims *)

\* C1: isLeapYear returns true exactly for the years Y, negative ones and 0
\* included, that 4 divides and that 100 does not divide unless 400 does.
C1_GregorianRule ==
    fn = "isLeapYear" =>
        (ret <=> ( /\ Divides(4, args.fullYear)
                   /\ (~Divides(100, args.fullYear) \/ Divides(400, args.fullYear)) ))

\* C2: for a difference D >= 0 the four numeric fields H, M, S, ms read out of
\* the returned string give H*3600000 + M*60000 + S*1000 + ms = D.
C2_RoundTrip ==
    (fn = "timeSpanToString" /\ locals.millisecondQuantity >= 0) =>
        /\ WellFormed(ret)
        /\ ParseNat(Fields(ret).H) * 3600000 + ParseNat(Fields(ret).M) * 60000
             + ParseNat(Fields(ret).S) * 1000 + ParseNat(Fields(ret).ms)
           = args.endDate - args.startDate

\* a span of 100 hours or more with every field non-zero was formatted
C2_Witness ==
    /\ fn = "timeSpanToString"
    /\ args.endDate - args.startDate = 100 * 3600000 + 58 * 60000 + 58 * 1000 + 989
    /\ ret = <<"1", "0", "0", ":", "5", "8", ":", "5", "8", ".", "9", "8", "9">>

\* C3: for a difference D >= 0 the minutes and seconds fields are 2 digits in
\* 0..59, the milliseconds field is 3 digits in 0..999, and the hours field is
\* floor(D / 3600000) in at least 2 digits: zero-padded below 10, never cut.
C3_FieldShape ==
    (fn = "timeSpanToString" /\ locals.millisecondQuantity >= 0) =>
        LET D == args.endDate - args.startDate
            f == Fields(ret)
        IN  /\ WellFormed(ret)
            /\ Len(f.M) = 2 /\ ParseNat(f.M) \in 0..59
            /\ Len(f.S) = 2 /\ ParseNat(f.S) \in 0..59
            /\ Len(f.ms) = 3 /\ ParseNat(f.ms) \in 0..999
            /\ ParseNat(f.H) = D \div 3600000
            /\ Len(f.H) >= 2
            /\ (D \div 3600000 < 10 => (Len(f.H) = 2 /\ f.H[1] = "0"))
            /\ (D \div 3600000 >= 100 => (Len(f.H) >= 3 /\ f.H[1] # "0"))

\* a span of 100 hours or more got a 3-digit hours field, and a span below
\* 10 hours a padded one: here the first
C3_Witness ==
    /\ fn = "timeSpanToString"
    /\ args.endDate - args.startDate >= 100 * 3600000
    /\ Len(Fields(ret).H) = 3
    /\ Fields(ret).M = <<"0", "1">>
    /\ Fields(ret).ms = <<"0", "0", "9">>

\* C4: the angle returned for an instant is the same on two hosts that differ
\* only in their timezone offset.
C4_SameOnEveryHost ==
    fn = "angleBetweenClockHands on two hosts" => ret[1] = ret[2]

\* C5: the value returned, in degrees, is min(raw, 360 - raw) for
\* raw = |0.5*(60*h + m) - 6*m|, h the hour fed to the formula, m the minute.
C5_NonReflexAngle ==
    fn = "angleBetweenClockHands" =>
        LET raw == MathAbs(3 * (60 * locals.hours + locals.minutes)
                           - 36 * locals.minutes)
            least == IF raw < 2160 - raw THEN raw ELSE 2160 - raw
        IN  ret.num * 1080 = least * ret.den

\* C6: on a host at UTC+3 the UTC times 00:00, 03:00, 18:00 and 21:00 give
\* 0, pi/2, pi and pi/2.
C6_DocumentedExamples ==
    (fn = "angleBetweenClockHands" /\ args.tz = 180) =>
        /\ (args.date = 0 => ret = [num |-> 0, den |-> 1])
        /\ (args.date = 3 * 3600000 => ret = [num |-> 1, den |-> 2])
        /\ (args.date = 18 * 3600000 => ret = [num |-> 1, den |-> 1])
        /\ (args.date = 21 * 3600000 => ret = [num |-> 1, den |-> 2])

\* the example at 21:00 UTC on a host at UTC+3, which takes the table and the
\* correction above 180 degrees
C6_Witness ==
    /\ fn = "angleBetweenClockHands"
    /\ args.tz = 180
    /\ args.date = 21 * 3600000
    /\ locals.getHours = 0
    /\ locals.raw = 6 * 270
    /\ ret = [num |-> 1, den |-> 2]

\* C8: for a difference D < 0 the components are D's truncations toward zero:
\* each is <= 0, |minutes| <= 59, |seconds| <= 59, |milliseconds| <= 999, and
\* hour*3600000 + minutes*60000 + seconds*1000 + milliseconds = D.
C8_SignedDecomposition ==
    (fn = "timeSpanToString" /\ locals.millisecondQuantity < 0) =>
        LET D == args.endDate - args.startDate
        IN  /\ locals.hour = 0 - ((0 - D) \div 3600000)
            /\ locals.hour <= 0
            /\ locals.minutes \in (0 - 59)..0
            /\ locals.seconds \in (0 - 59)..0
            /\ locals.millisecond \in (0 - 999)..0
            /\ locals.hour * 3600000 + locals.minutes * 60000
                 + locals.seconds * 1000 + locals.millisecond = D

\* a negative span all of whose components are negative
C8_Witness ==
    /\ fn = "timeSpanToString"
    /\ args.endDate - args.startDate < 0
    /\ locals.hour < 0
    /\ locals.minutes < 0
    /\ locals.seconds < 0
    /\ locals.millisecond < 0

\* C9: for a local hour L in 0..23 the shifted hour is (L - 3) mod 24, the
\* hour fed to the formula is in 0..12 and congruent to it modulo 12 (13..23
\* become 1..11, 0..12 are kept), and the default branch is never taken.
C9_HourNormalisation ==
    fn = "angleBetweenClockHands" =>
        /\ locals.getHours \in 0..23
        /\ locals.shifted = (locals.getHours - 3) % 24
        /\ locals.shifted \in 0..23
        /\ locals.hours \in 0..12
        /\ locals.hours % 12 = locals.shifted % 12
        /\ (locals.shifted \in 13..23 => locals.hours = locals.shifted - 12)
        /\ (locals.shifted \in 0..12 => locals.hours = locals.shifted)
        /\ locals.branch # "default"

\* local hour 2 wraps to 23, which the table maps to 11
C9_Witness ==
    /\ fn = "angleBetweenClockHands"
    /\ locals.getHours = 2
    /\ locals.shifted = 23
    /\ locals.branch = "case"
    /\ locals.hours = 11

\* C10: for every local hour and minute the angle returned is at least 0 and
\* at most pi (in degrees, after the correction, in 0..180).
C10_ResultRange ==
    fn = "angleBetweenClockHands" =>
        /\ locals.ugol >= 0
        /\ locals.ugol <= 6 * 180
        /\ ret.num >= 0
        /\ ret.den > 0
        /\ ret.num <= ret.den

\* a raw angle above 180 degrees was corrected
C10_Witness ==
    /\ fn = "angleBetweenClockHands"
    /\ locals.raw > 6 * 180
    /\ locals.ugol < locals.raw
    /\ ret.num < ret.den

====
